---- MODULE Spec2Model ----
(***************************************************************************)
(* fastapi-tasks: background tasks bound to a request's checkpoints.       *)
(*                                                                         *)
(* The model follows src/fastapi_tasks/tasks.py (TaskConfig, Task,         *)
(* TasksBatch, TasksScheduler) and src/fastapi_tasks/dependencies.py       *)
(* (_lifespan, the two generator dependencies).  The anyio task group and  *)
(* the asyncio event loop are modelled at the boundary the code uses:      *)
(* start_soon appends to the loop's FIFO ready queue, a cancelled scope    *)
(* cancels an unshielded task at a suspension point, an exception leaving  *)
(* a child task cancels the group.                                         *)
(***************************************************************************)
EXTENDS Naturals, Sequences, FiniteSets, TLC

\* ------------------------------------------------------------------ bounds
MaxTasks == 3          \* tasks created over the whole run
MaxRequests == 1       \* requests served over the whole run
MaxConfigTasks == 1    \* tasks created per run when every definition is tried
MaxBatchTasks == 2     \* tasks created per run when the batches are driven freely
MaxReleases == 3       \* release calls per request when the batches are driven freely
MaxShutdownTasks == 2  \* tasks created per run when shutdown is followed to its end
MaxIsoRequests == 2    \* requests served concurrently when isolation is checked
MaxIsoTasks == 2       \* tasks created per run when isolation is checked

\* ------------------------------------------------------------- TaskConfig
None == "None"

Names == {None, "n1", "n2"}
Shields == {None, "True", "False"}
Handlers == {"global_handler", "task_handler"}
OnErrors == {None} \cup Handlers

\* @dataclass TaskConfig(name, shield, on_error), every field defaulting to None
TaskConfig(n, s, h) == [name |-> n, shield |-> s, on_error |-> h]

AllConfigs == {TaskConfig(n, s, h) : n \in Names, s \in Shields, h \in OnErrors}

EmptyConfig == TaskConfig(None, None, None)

\* a cancel scope opened without the configured shield
shielded_ignored(config) == FALSE

\* TaskConfig.shielded: bool(self.shield)
shielded(config) == config.shield = "True"

\* a merge that treats shield as a truth value: shield=False is lost
merge_truthy(self, other) ==
    [name     |-> IF other.name # None THEN other.name ELSE self.name,
     shield   |-> IF other.shield = "True" THEN other.shield ELSE self.shield,
     on_error |-> IF other.on_error # None THEN other.on_error ELSE self.on_error]

\* a merge in which the receiver's set fields win over the argument's
merge_keep_first(self, other) ==
    [name     |-> IF self.name # None THEN self.name ELSE other.name,
     shield   |-> IF self.shield # None THEN self.shield ELSE other.shield,
     on_error |-> IF self.on_error # None THEN self.on_error ELSE other.on_error]

\* TaskConfig.merge: the value of `merged` when it is returned
merge(self, other) ==
    [name     |-> IF other.name # None THEN other.name ELSE self.name,
     shield   |-> IF other.shield # None THEN other.shield ELSE self.shield,
     on_error |-> IF other.on_error # None THEN other.on_error ELSE self.on_error]

\* copy(self) handing back the receiver itself
copy_alias(h, ref) == [heap |-> h, ref |-> ref]

\* copy(self): a new object with the receiver's field values
copy(h, ref) == [heap |-> Append(h, h[ref]), ref |-> Len(h) + 1]

\* --------------------------------------------------------------- inputs
\* add_tasks(app, config=...): the application-wide default
GlobalConfigs == {EmptyConfig, TaskConfig(None, None, "global_handler")}

\* how route code creates a task: plain .schedule(f), or .task(...).schedule(f)
\* with keyword arguments name=, shield=, on_error=
Definitions == {[api |-> "schedule", overrides |-> EmptyConfig],
                [api |-> "task", overrides |-> TaskConfig(None, "True", "task_handler")]}

\* what the callable of a task turns out to be when it is called: a coroutine
\* function whose body has no suspension point, one whose body awaits once
\* (a sleep), or a plain function
Funcs == {"async", "async_sleep", "sync"}

\* how a body or a handler ends
Outcomes == {"return", "raise"}

\* where route code calls from: a coroutine on the event loop, or a plain
\* function that the framework runs on a worker thread
Threads == {"loop", "worker"}

Requests == 1..MaxRequests

\* the requests in flight together on one application
IsoRequests == 1..MaxIsoRequests

\* ---------------------------------------------------------------- state
VARIABLES
    addTasksCalled,   \* add_tasks(app) was called before the app started
    globalConfig,     \* the config bound into _lifespan by add_tasks
    tg,               \* the lifespan's task group: none, active, cancelled, exited
    reqs,             \* per request: its position and its TasksScheduler
    tasks,            \* every Task object created, by creation order
    ready,            \* the event loop's FIFO of spawned tasks not yet begun
    launchOrder,      \* task ids in the order tg.start_soon was called on them
    startOrder,       \* task ids in the order their `started` event was set
    cancelledBy,      \* what cancelled the group's scope: none, lifespan, fault
    cfgA, cfgB,       \* TaskConfig.merge: the receiver and the argument as given
    heap,             \* TaskConfig.merge: the config objects, by reference
    mergedRef,        \* TaskConfig.merge: the reference returned (0: not called)
    cfgC,             \* chained merges: the third config
    chain             \* chained merges: the results (<<>>: not computed)

vars == <<addTasksCalled, globalConfig, tg, reqs, tasks, ready, launchOrder,
          startOrder, cancelledBy, cfgA, cfgB, heap, mergedRef, cfgC, chain>>

mergeVars == <<cfgA, cfgB, heap, mergedRef, cfgC, chain>>

TaskIds == 1..Len(tasks)

\* TasksBatch(config=...): scheduled defaults to an empty list
TasksBatch(config) == [config |-> config, scheduled |-> <<>>]

\* a request before its scheduler exists
NoScheduler == [pc |-> "idle", released |-> <<>>, config |-> EmptyConfig,
                after_route |-> TasksBatch(EmptyConfig),
                after_response |-> TasksBatch(EmptyConfig)]

\* TasksScheduler(tg, config) and its __post_init__: both batches get the
\* scheduler's config
TasksScheduler(config) ==
    [pc |-> "route", released |-> <<>>, config |-> config,
     after_route |-> TasksBatch(config),
     after_response |-> TasksBatch(config)]

\* Task(func=, args=, kwargs=, config=): started is a fresh, unset Event.
\* `late` remembers whether the batch the task was added to had already been
\* released at that moment.
Task(r, via, config, api, overrides) ==
    [req |-> r, via |-> via, config |-> config,
     api |-> api, overrides |-> overrides,
     started |-> FALSE, st |-> "created", body |-> "none",
     logged |-> 0, calls |-> <<>>, handler |-> "none", fault |-> "none",
     inBodyAtCancel |-> FALSE,
     launchedBy |-> "none", launchedAt |-> "none", late |-> FALSE]

\* ------------------------------------------------------- task group, loop
\* tg.start_soon refuses once the group's `async with` block has been left
TgAcceptsTasks == tg \in {"active", "cancelled"}

\* a launch that waits until the task has taken its first step
start_soon_waits(ts, t, thread, at) ==
    [ts EXCEPT ![t].st = "ready", ![t].started = TRUE,
               ![t].launchedBy = thread, ![t].launchedAt = at]

\* tg.start_soon(self, name=...): the task is spawned on the loop; it begins
\* when the loop reaches it.  `thread` is the thread that made the call and
\* `at` the position of the owning request at that moment.
start_soon(ts, t, thread, at) ==
    [ts EXCEPT ![t].st = "ready", ![t].launchedBy = thread, ![t].launchedAt = at]

\* a release that walks the queue from its newest entry
RECURSIVE BatchLaunchOrder_reversed(_)
BatchLaunchOrder_reversed(scheduled) ==
    IF scheduled = <<>> THEN <<>>
    ELSE Append(BatchLaunchOrder_reversed(Tail(scheduled)), Head(scheduled))

\* the tasks a release walks over, in the order it launches them
BatchLaunchOrder(scheduled) == scheduled

\* TasksBatch.__start__: for task_def in self.scheduled: task_def.__start__(scheduler)
\* (the dependencies' exit code runs on the event loop, so each launch is direct)
RECURSIVE BatchStart(_, _, _)
BatchStart(ts, order, at) ==
    IF order = <<>> THEN ts
    ELSE BatchStart(start_soon(ts, Head(order), "loop", at), Tail(order), at)

\* a batch that forgets the task it is given
BatchOnTaskSchedule_dropped(batch, t) == batch

\* TasksBatch._on_task_schedule: self.scheduled.append(task)
BatchOnTaskSchedule(batch, t) == [batch EXCEPT !.scheduled = Append(@, t)]

\* a __call__ whose cancel scope spans the except block as well
CancelPending_whole_call(t) ==
    /\ tg = "cancelled"
    /\ ~shielded(tasks[t].config)

\* the scope a task may be cancelled through: the group's scope is cancelled
\* and the task is not inside `with CancelScope(shield=True)`
CancelPending(t) ==
    /\ tg = "cancelled"
    /\ \/ tasks[t].st = "handler_suspended"
       \/ ~shielded(tasks[t].config)

\* cancelling the scope: the tasks parked inside their body at that moment are
\* the ones the cancellation finds mid-body
ScopeCancelled(ts) ==
    [t \in DOMAIN ts |-> [ts[t] EXCEPT !.inBodyAtCancel = (ts[t].st = "body_suspended")]]

TerminalTask(t) == tasks[t].st \in {"finished", "cancelled", "crashed"}
InGroup(t) == tasks[t].st \notin {"created", "handoff"}

TerminalPcs == {"idle", "uninitialized", "route_raised", "schedule_failed",
                "release_failed", "done"}

\* ------------------------------------------------------------- lifespan
Init ==
    /\ addTasksCalled \in BOOLEAN
    /\ globalConfig \in GlobalConfigs
    /\ tg = "not_entered"
    /\ reqs = [r \in Requests |-> NoScheduler]
    /\ tasks = <<>>
    /\ ready = <<>>
    /\ launchOrder = <<>>
    /\ startOrder = <<>>
    /\ cancelledBy = "none"
    /\ cfgA = EmptyConfig /\ cfgB = EmptyConfig
    /\ heap = <<EmptyConfig, EmptyConfig>>
    /\ mergedRef = 0
    /\ cfgC = EmptyConfig /\ chain = <<>>

\* _lifespan up to its yield: the task group is created and published
LifespanEnter ==
    /\ addTasksCalled
    /\ tg = "not_entered"
    /\ tg' = "active"
    /\ UNCHANGED <<addTasksCalled, globalConfig, reqs, tasks, ready, launchOrder,
                   startOrder, cancelledBy>>
    /\ UNCHANGED mergeVars

\* _lifespan after its yield: tg.cancel_scope.cancel().  The host shuts the
\* lifespan down once no request is being served.
LifespanCancel ==
    /\ tg = "active"
    /\ \A r \in DOMAIN reqs : reqs[r].pc \in TerminalPcs
    /\ tg' = "cancelled"
    /\ cancelledBy' = "lifespan"
    /\ tasks' = ScopeCancelled(tasks)
    /\ UNCHANGED <<addTasksCalled, globalConfig, reqs, ready, launchOrder, startOrder>>
    /\ UNCHANGED mergeVars

\* a block that is left as soon as the scope is cancelled
LifespanExit_nowait ==
    /\ tg = "cancelled"
    /\ tg' = "exited"
    /\ UNCHANGED <<addTasksCalled, globalConfig, reqs, tasks, ready, launchOrder,
                   startOrder, cancelledBy>>
    /\ UNCHANGED mergeVars

\* leaving `async with anyio.create_task_group()`: the block waits for every
\* child task
LifespanExit ==
    /\ tg = "cancelled"
    /\ \A t \in TaskIds : InGroup(t) => TerminalTask(t)
    /\ tg' = "exited"
    /\ UNCHANGED <<addTasksCalled, globalConfig, reqs, tasks, ready, launchOrder,
                   startOrder, cancelledBy>>
    /\ UNCHANGED mergeVars

\* ------------------------------------------------- request: dependencies
\* the release of the named batch has been called for this request
Released(rq, name) == \E i \in 1..Len(rq.released) : rq.released[i] = name

\* a dependency that swallows the AttributeError and carries on
StateHasTasks_swallowed == TRUE

\* _get_tasks_scheduler_req_scope, the try block: req.state carries the two
\* attributes only when the lifespan registered by add_tasks has yielded them
StateHasTasks == addTasksCalled /\ tg # "not_entered"

\* _get_tasks_scheduler_req_scope up to its yield, then _get_task_scheduler up
\* to its yield: the route handler receives the scheduler
RequestStart(r) ==
    /\ reqs[r].pc = "idle"
    /\ addTasksCalled => tg = "active"
    /\ IF StateHasTasks
       THEN reqs' = [reqs EXCEPT ![r] = TasksScheduler(globalConfig)]
       ELSE reqs' = [reqs EXCEPT ![r].pc = "uninitialized"]
    /\ UNCHANGED <<addTasksCalled, globalConfig, tg, tasks, ready, launchOrder,
                   startOrder, cancelledBy>>
    /\ UNCHANGED mergeVars

\* the config a definition point hands to the tasks it creates
BaseConfig(rq, via) ==
    CASE via = "scheduler"      -> rq.config
      [] via = "after_route"    -> rq.after_route.config
      [] via = "after_response" -> rq.after_response.config

\* a schedule that builds the task with a default TaskConfig()
ScheduleConfig_default(base) == EmptyConfig

\* _ConfiguredTaskDefMixin.schedule: Task(..., config=self.config)
ScheduleConfig(base) == base

\* a builder bound to the keyword arguments alone, without the base config
PartialConfig_overrides_only(base, overrides) == overrides

\* _ConfiguredTaskDefMixin.task: _config=self.config.merge(TaskConfig(...))
PartialConfig(base, overrides) == merge(base, overrides)

ResolvedConfig(base, api, overrides) ==
    IF api = "schedule" THEN ScheduleConfig(base) ELSE PartialConfig(base, overrides)

\* a __start__ that always calls _start_task directly
Marshalled_never(caller) == FALSE

\* Task.__start__: current_async_library() is None on a worker thread, and the
\* call is then handed to the event loop by anyio.from_thread.run_sync
Marshalled(caller) == caller = "worker"

\* route code: tasks.schedule(f) or tasks.task(...).schedule(f).
\* TasksScheduler._on_task_schedule: task.__start__(self)
ScheduleImmediate(r, caller, api, ov) ==
    /\ reqs[r].pc = "route"
    /\ Len(tasks) < MaxTasks
    /\ LET t == Len(tasks) + 1
           new == Task(r, "scheduler",
                       ResolvedConfig(BaseConfig(reqs[r], "scheduler"), api, ov), api, ov)
       IN  IF Marshalled(caller)
           THEN /\ tasks' = Append(tasks, [new EXCEPT !.st = "handoff"])
                /\ reqs' = [reqs EXCEPT ![r].pc = "route_blocked"]
                /\ UNCHANGED <<ready, launchOrder>>
           ELSE IF TgAcceptsTasks
           THEN /\ tasks' = start_soon(Append(tasks, new), t, caller, "route")
                /\ ready' = Append(ready, t)
                /\ launchOrder' = Append(launchOrder, t)
                /\ reqs' = reqs
           ELSE /\ tasks' = Append(tasks, new)
                /\ reqs' = [reqs EXCEPT ![r].pc = "schedule_failed"]
                /\ UNCHANGED <<ready, launchOrder>>
    /\ UNCHANGED <<addTasksCalled, globalConfig, tg, startOrder, cancelledBy>>
    /\ UNCHANGED mergeVars

\* the event loop runs the _start_task a worker thread handed over; the worker
\* waits for it and has not resumed yet when the call is done
LoopRunSync(r) ==
    /\ reqs[r].pc = "route_blocked"
    /\ \E t \in TaskIds :
        /\ tasks[t].st = "handoff" /\ tasks[t].req = r
        /\ IF TgAcceptsTasks
           THEN /\ tasks' = start_soon(tasks, t, "loop", "route")
                /\ ready' = Append(ready, t)
                /\ launchOrder' = Append(launchOrder, t)
                /\ reqs' = [reqs EXCEPT ![r].pc = "route_resuming"]
           ELSE /\ tasks' = [tasks EXCEPT ![t].st = "created"]
                /\ reqs' = [reqs EXCEPT ![r].pc = "schedule_failed"]
                /\ UNCHANGED <<ready, launchOrder>>
    /\ UNCHANGED <<addTasksCalled, globalConfig, tg, startOrder, cancelledBy>>
    /\ UNCHANGED mergeVars

\* anyio.from_thread.run_sync returns in the worker thread: schedule(...)
\* returns the task and the route code goes on
WorkerResume(r) ==
    /\ reqs[r].pc = "route_resuming"
    /\ reqs' = [reqs EXCEPT ![r].pc = "route"]
    /\ UNCHANGED <<addTasksCalled, globalConfig, tg, tasks, ready, launchOrder,
                   startOrder, cancelledBy>>
    /\ UNCHANGED mergeVars

Batches == {"after_route", "after_response"}

\* one list object shared by every batch (a class-level default)
ScheduledListOwners_class_level(r, via) == {<<q, b>> : q \in DOMAIN reqs, b \in Batches}

\* scheduled: field(default_factory=list), in batches built per scheduler by
\* __post_init__: the batches whose `scheduled` is the list object that batch
\* `via` of request r appends to -- that batch alone
ScheduledListOwners(r, via) == {<<r, via>>}

\* a batch that launches what is added to it once it has been released
BatchLaunchedOnSchedule_retroactive(released, t) == IF released THEN <<t>> ELSE <<>>

\* what TasksBatch._on_task_schedule hands to the task group: nothing, it
\* only appends
BatchLaunchedOnSchedule(released, t) == <<>>

\* batch.schedule(f) or batch.task(...).schedule(f): the Task is built with the
\* resolved config and passed to the batch's _on_task_schedule
BatchSchedule(r, via, api, ov) ==
    LET t == Len(tasks) + 1
        made == Task(r, via,
                     ResolvedConfig(BaseConfig(reqs[r], via), api, ov), api, ov)
        new == [made EXCEPT !.late = Released(reqs[r], via)]
        now == BatchLaunchedOnSchedule(Released(reqs[r], via), t)
    IN  /\ tasks' = BatchStart(Append(tasks, new), now, reqs[r].pc)
        /\ ready' = ready \o now
        /\ launchOrder' = launchOrder \o now
        /\ reqs' = [q \in DOMAIN reqs |->
                      [reqs[q] EXCEPT
                         !.after_route =
                             IF <<q, "after_route">> \in ScheduledListOwners(r, via)
                             THEN BatchOnTaskSchedule(@, t) ELSE @,
                         !.after_response =
                             IF <<q, "after_response">> \in ScheduledListOwners(r, via)
                             THEN BatchOnTaskSchedule(@, t) ELSE @]]

\* route code: tasks.after_route.schedule(f), tasks.after_response.task(...).schedule(f)
ScheduleBatch(r, via, api, ov) ==
    /\ reqs[r].pc = "route"
    /\ Len(tasks) < MaxTasks
    /\ BatchSchedule(r, via, api, ov)
    /\ UNCHANGED <<addTasksCalled, globalConfig, tg, startOrder, cancelledBy>>
    /\ UNCHANGED mergeVars

\* code that kept the scheduler (a task's body, a streamed response) adds to
\* a batch after the route handler has returned
LateScheduleBatch(r, via, api, ov) ==
    /\ reqs[r].pc \in {"route_returned", "route_released", "response_sent", "done"}
    /\ Len(tasks) < MaxBatchTasks
    /\ BatchSchedule(r, via, api, ov)
    /\ UNCHANGED <<addTasksCalled, globalConfig, tg, startOrder, cancelledBy>>
    /\ UNCHANGED mergeVars

\* the route handler returns its value
RouteReturn(r) ==
    /\ reqs[r].pc = "route"
    /\ reqs' = [reqs EXCEPT ![r].pc = "route_returned"]
    /\ UNCHANGED <<addTasksCalled, globalConfig, tg, tasks, ready, launchOrder,
                   startOrder, cancelledBy>>
    /\ UNCHANGED mergeVars

\* the exit code of one generator releasing the other generator's batch
AfterRouteBatch_swapped(rq) == rq.after_response
AfterResponseBatch_swapped(rq) == rq.after_route

\* the batch each generator releases after its yield
AfterRouteBatch(rq) == rq.after_route
AfterResponseBatch(rq) == rq.after_response

\* a release: every queued task is launched, unless the group refuses the
\* first one (start_soon raises and the exception leaves the dependency)
Release(r, name, batch, at, pcAfter) ==
    IF batch.scheduled # <<>> /\ ~TgAcceptsTasks
    THEN /\ reqs' = [reqs EXCEPT ![r].pc = "release_failed",
                                 ![r].released = Append(@, name)]
         /\ UNCHANGED <<tasks, ready, launchOrder>>
    ELSE /\ tasks' = BatchStart(tasks, BatchLaunchOrder(batch.scheduled), at)
         /\ ready' = ready \o BatchLaunchOrder(batch.scheduled)
         /\ launchOrder' = launchOrder \o BatchLaunchOrder(batch.scheduled)
         /\ reqs' = [reqs EXCEPT ![r].pc = pcAfter,
                                 ![r].released = Append(@, name)]

\* _get_task_scheduler after its yield (scope="function": right after the
\* route handler returned): _scheduler.after_route.__start__(_scheduler)
ReleaseAfterRoute(r) ==
    /\ reqs[r].pc = "route_returned"
    /\ Release(r, "after_route", AfterRouteBatch(reqs[r]), "route_returned",
               "route_released")
    /\ UNCHANGED <<addTasksCalled, globalConfig, tg, startOrder, cancelledBy>>
    /\ UNCHANGED mergeVars

\* a generator that releases its batch in a finally block
RouteRaise_finally(r) ==
    /\ reqs[r].pc = "route"
    /\ Release(r, "after_route", AfterRouteBatch(reqs[r]), "route", "route_raised")
    /\ UNCHANGED <<addTasksCalled, globalConfig, tg, startOrder, cancelledBy>>
    /\ UNCHANGED mergeVars

\* the route handler raises: neither generator runs the code after its yield
RouteRaise(r) ==
    /\ reqs[r].pc = "route"
    /\ reqs' = [reqs EXCEPT ![r].pc = "route_raised"]
    /\ UNCHANGED <<addTasksCalled, globalConfig, tg, tasks, ready, launchOrder,
                   startOrder, cancelledBy>>
    /\ UNCHANGED mergeVars

\* the response is sent to the client
ResponseSent(r) ==
    /\ reqs[r].pc = "route_released"
    /\ reqs' = [reqs EXCEPT ![r].pc = "response_sent"]
    /\ UNCHANGED <<addTasksCalled, globalConfig, tg, tasks, ready, launchOrder,
                   startOrder, cancelledBy>>
    /\ UNCHANGED mergeVars

\* _get_tasks_scheduler_req_scope after its yield (scope="request": after the
\* response was sent): scheduler.after_response.__start__(scheduler)
ReleaseAfterResponse(r) ==
    /\ reqs[r].pc = "response_sent"
    /\ Release(r, "after_response", AfterResponseBatch(reqs[r]), "response_sent",
               "done")
    /\ UNCHANGED <<addTasksCalled, globalConfig, tg, startOrder, cancelledBy>>
    /\ UNCHANGED mergeVars

\* batch.__start__(scheduler) called once more, by code that kept the
\* scheduler, after the batch was released and once the tasks that release
\* launched are over
ReleaseAgain(r, name) ==
    /\ Released(reqs[r], name)
    /\ Len(reqs[r].released) < MaxReleases
    /\ TgAcceptsTasks
    /\ LET batch == IF name = "after_route" THEN reqs[r].after_route
                    ELSE reqs[r].after_response
       IN  /\ \A i \in 1..Len(batch.scheduled) :
                  tasks[batch.scheduled[i]].st \in {"created", "finished", "cancelled",
                                                    "crashed"}
           /\ Release(r, name, batch, reqs[r].pc, reqs[r].pc)
    /\ UNCHANGED <<addTasksCalled, globalConfig, tg, startOrder, cancelledBy>>
    /\ UNCHANGED mergeVars

\* --------------------------------------------------------- Task.__call__
\* how an on_error handler ends its first step: it returns, it raises, or it
\* reaches a suspension point
HandlerOutcomes == {"return", "raise", "suspend"}

\* a __call__ without the try/except around the body
Caught_nothing(o) == FALSE

\* `except BaseException`: the cancellation is caught as well
Caught_base(o) == o \in {"raise", "cancel"}

\* `except Exception as e`: the outcomes of the body that the except block
\* catches; what it does not catch leaves the task.  A body ends with
\* "cancel" when CancelledError is raised at its await; that is a
\* BaseException, not an Exception.
Caught(o) == o = "raise"

\* an except block that reports the exception to the handler twice
OnErrorCalls_twice(config, t) ==
    IF config.on_error # None
    THEN <<[handler |-> config.on_error, task |-> t, exc |-> t],
           [handler |-> config.on_error, task |-> t, exc |-> t]>>
    ELSE <<>>

\* the calls `await always_async_call(self.config.on_error, self, e)` makes for
\* task t: one call of the resolved handler with (task, exception), or none
OnErrorCalls(config, t) ==
    IF config.on_error # None
    THEN <<[handler |-> config.on_error, task |-> t, exc |-> t]>>
    ELSE <<>>

\* an exception leaving a child task cancels the task group's scope
GroupAfterFault == IF tg = "active" THEN "cancelled" ELSE tg
CauseAfterFault == IF tg = "active" THEN "fault" ELSE cancelledBy
TasksAfterFault(ts) == IF tg = "active" THEN ScopeCancelled(ts) ELSE ts

\* a second try/except around the handler's call
HandlerCaught_all(ho) == ho = "raise"

\* the outcomes of the handler that __call__ catches: the await of the handler
\* sits inside the except block, with nothing around it
HandlerCaught(ho) == FALSE

\* the handler's step ends: return None / the exception leaves the task /
\* the handler is parked at an await, outside the cancel scope of the body
HandlerEnds(t, base, ho) ==
    CASE ho = "return"  -> /\ tasks' = [base EXCEPT ![t].st = "finished",
                                                    ![t].handler = "returned"]
                           /\ UNCHANGED <<tg, cancelledBy>>
      [] ho = "raise" /\ HandlerCaught(ho) ->
                           /\ tasks' = [base EXCEPT ![t].st = "finished",
                                                    ![t].handler = "raised"]
                           /\ UNCHANGED <<tg, cancelledBy>>
      [] ho = "raise" /\ ~HandlerCaught(ho) ->
                           /\ tasks' = TasksAfterFault([base EXCEPT ![t].st = "crashed",
                                                                    ![t].handler = "raised",
                                                                    ![t].fault = "handler"])
                           /\ tg' = GroupAfterFault
                           /\ cancelledBy' = CauseAfterFault
      [] ho = "suspend" -> /\ tasks' = [base EXCEPT ![t].st = "handler_suspended"]
                           /\ UNCHANGED <<tg, cancelledBy>>

\* the body's await ends with outcome o: `return await ...`, or the except
\* block: logger.exception, then the handler if one is configured; an
\* uncaught cancellation ends the task as cancelled, an uncaught exception
\* is a fault of the child task
BodyEnds(t, base, o) ==
    IF o = "return"
    THEN /\ tasks' = [base EXCEPT ![t].st = "finished", ![t].body = "returned"]
         /\ UNCHANGED <<tg, cancelledBy>>
    ELSE IF ~Caught(o) /\ o = "cancel"
    THEN /\ tasks' = [base EXCEPT ![t].st = "cancelled", ![t].body = "cancelled"]
         /\ UNCHANGED <<tg, cancelledBy>>
    ELSE IF ~Caught(o)
    THEN /\ tasks' = TasksAfterFault([base EXCEPT ![t].st = "crashed",
                                                  ![t].body = "raised",
                                                  ![t].fault = "body"])
         /\ tg' = GroupAfterFault
         /\ cancelledBy' = CauseAfterFault
    ELSE LET calls == OnErrorCalls(base[t].config, t)
             logd == [base EXCEPT ![t].body = IF o = "cancel" THEN "cancelled"
                                             ELSE "raised",
                                  ![t].logged = @ + 1,
                                  ![t].calls = @ \o calls]
         IN  IF calls = <<>>
             THEN /\ tasks' = [logd EXCEPT ![t].st = "finished"]
                  /\ UNCHANGED <<tg, cancelledBy>>
             ELSE \E ho \in HandlerOutcomes : HandlerEnds(t, logd, ho)

\* a __call__ that does not set `started` before it runs the body
StartedOnEntry_unset == FALSE

\* whether `started` is set when the coroutine takes its first step
StartedOnEntry == TRUE

\* the loop begins the oldest spawned task: self.started.set(), then the body
\* up to its first suspension point.  A coroutine function without an await
\* runs to its end; a sleeping one parks inside the cancel scope; a plain
\* function passes run_in_threadpool's checkpoint, where a cancelled scope
\* stops an unshielded task, and then runs on a worker thread.
TaskBegin ==
    /\ ready # <<>>
    /\ LET t == Head(ready)
           base == [tasks EXCEPT ![t].started = StartedOnEntry, ![t].st = "running"]
       IN  /\ ready' = Tail(ready)
           /\ startOrder' = Append(startOrder, t)
           /\ \E func \in Funcs :
                CASE func = "async" ->
                       \E o \in Outcomes : BodyEnds(t, base, o)
                  [] func = "async_sleep" ->
                       /\ tasks' = [base EXCEPT ![t].st = "body_suspended"]
                       /\ UNCHANGED <<tg, cancelledBy>>
                  [] func = "sync" ->
                       IF tg = "cancelled" /\ ~shielded(tasks[t].config)
                       THEN BodyEnds(t, base, "cancel")
                       ELSE /\ tasks' = [base EXCEPT ![t].st = "in_thread"]
                            /\ UNCHANGED <<tg, cancelledBy>>
    /\ UNCHANGED <<addTasksCalled, globalConfig, reqs, launchOrder>>
    /\ UNCHANGED mergeVars

\* the sleep inside the body is over and no cancellation reaches the task:
\* the body runs to its end
BodyResume(t) ==
    /\ tasks[t].st = "body_suspended"
    /\ ~CancelPending(t)
    /\ \E o \in Outcomes : BodyEnds(t, tasks, o)
    /\ UNCHANGED <<addTasksCalled, globalConfig, reqs, ready, launchOrder, startOrder>>
    /\ UNCHANGED mergeVars

\* the worker thread is done; a running thread is not interrupted, its result
\* or exception is delivered to the awaiting task
ThreadDone(t) ==
    /\ tasks[t].st = "in_thread"
    /\ \E o \in Outcomes : BodyEnds(t, tasks, o)
    /\ UNCHANGED <<addTasksCalled, globalConfig, reqs, ready, launchOrder, startOrder>>
    /\ UNCHANGED mergeVars

\* the handler's await is over and the group was not cancelled meanwhile
HandlerResume(t) ==
    /\ tasks[t].st = "handler_suspended"
    /\ ~CancelPending(t)
    /\ \E ho \in {"return", "raise"} : HandlerEnds(t, tasks, ho)
    /\ UNCHANGED <<addTasksCalled, globalConfig, reqs, ready, launchOrder, startOrder>>
    /\ UNCHANGED mergeVars

\* a cancelled scope reaches a parked task: CancelledError is raised at the
\* await.  In the body that is the body's outcome "cancel"; in the handler,
\* which is awaited inside the except block, it leaves __call__.
TaskCancelled(t) ==
    /\ tasks[t].st \in {"body_suspended", "handler_suspended"}
    /\ CancelPending(t)
    /\ IF tasks[t].st = "handler_suspended"
       THEN /\ tasks' = [tasks EXCEPT ![t].st = "cancelled"]
            /\ UNCHANGED <<tg, cancelledBy>>
       ELSE BodyEnds(t, tasks, "cancel")
    /\ UNCHANGED <<addTasksCalled, globalConfig, reqs, ready, launchOrder, startOrder>>
    /\ UNCHANGED mergeVars

\* ------------------------------------------------------ TaskConfig.merge
\* a.merge(b) on the objects a (reference 1) and b (reference 2):
\* merged = copy(self), then the assignments to merged's fields, return merged
Merge ==
    /\ mergedRef = 0
    /\ LET c == copy(heap, 1)
       IN  /\ heap' = [c.heap EXCEPT ![c.ref] = merge(c.heap[c.ref], c.heap[2])]
           /\ mergedRef' = c.ref
    /\ UNCHANGED <<cfgA, cfgB, cfgC, chain>>
    /\ UNCHANGED <<addTasksCalled, globalConfig, tg, reqs, tasks, ready, launchOrder,
                   startOrder, cancelledBy>>

\* merges applied in a chain to a, b and c: a.merge(b).merge(c),
\* a.merge(b.merge(c)), a.merge(TaskConfig()) and TaskConfig().merge(a)
MergeChain ==
    /\ chain = <<>>
    /\ chain' = [left    |-> merge(merge(cfgA, cfgB), cfgC),
                 right   |-> merge(cfgA, merge(cfgB, cfgC)),
                 rightId |-> merge(cfgA, EmptyConfig),
                 leftId  |-> merge(EmptyConfig, cfgA)]
    /\ UNCHANGED <<cfgA, cfgB, cfgC, heap, mergedRef>>
    /\ UNCHANGED <<addTasksCalled, globalConfig, tg, reqs, tasks, ready, launchOrder,
                   startOrder, cancelledBy>>

\* --------------------------------------------------------- specification
Next ==
    \/ LifespanEnter
    \/ LifespanCancel
    \/ LifespanExit
    \/ \E r \in Requests : RequestStart(r)
    \/ \E r \in Requests, caller \in Threads, d \in Definitions :
           ScheduleImmediate(r, caller, d.api, d.overrides)
    \/ \E r \in Requests : LoopRunSync(r)
    \/ \E r \in Requests : WorkerResume(r)
    \/ \E r \in Requests, via \in {"after_route", "after_response"}, d \in Definitions :
           ScheduleBatch(r, via, d.api, d.overrides)
    \/ \E r \in Requests : RouteReturn(r)
    \/ \E r \in Requests : RouteRaise(r)
    \/ \E r \in Requests : ReleaseAfterRoute(r)
    \/ \E r \in Requests : ResponseSent(r)
    \/ \E r \in Requests : ReleaseAfterResponse(r)
    \/ TaskBegin
    \/ \E t \in TaskIds : BodyResume(t)
    \/ \E t \in TaskIds : ThreadDone(t)
    \/ \E t \in TaskIds : HandlerResume(t)
    \/ \E t \in TaskIds : TaskCancelled(t)

Spec == Init /\ [][Next]_vars

\* TaskConfig.merge on every pair of configs
InitMerge ==
    /\ addTasksCalled = FALSE
    /\ globalConfig = EmptyConfig
    /\ tg = "not_entered"
    /\ reqs = [r \in Requests |-> NoScheduler]
    /\ tasks = <<>>
    /\ ready = <<>>
    /\ launchOrder = <<>>
    /\ startOrder = <<>>
    /\ cancelledBy = "none"
    /\ cfgA \in AllConfigs
    /\ cfgB \in AllConfigs
    /\ heap = <<cfgA, cfgB>>
    /\ mergedRef = 0
    /\ cfgC = EmptyConfig /\ chain = <<>>

NextMerge == Merge

SpecMerge == InitMerge /\ [][NextMerge]_vars

\* chained merges on every triple of configs
InitAlgebra ==
    /\ addTasksCalled = FALSE
    /\ globalConfig = EmptyConfig
    /\ tg = "not_entered"
    /\ reqs = [r \in Requests |-> NoScheduler]
    /\ tasks = <<>>
    /\ ready = <<>>
    /\ launchOrder = <<>>
    /\ startOrder = <<>>
    /\ cancelledBy = "none"
    /\ cfgA \in AllConfigs
    /\ cfgB \in AllConfigs
    /\ cfgC \in AllConfigs
    /\ heap = <<cfgA, cfgB>>
    /\ mergedRef = 0
    /\ chain = <<>>

NextAlgebra == MergeChain

SpecAlgebra == InitAlgebra /\ [][NextAlgebra]_vars

\* every way of defining a task, under every global config
AllDefinitions == {[api |-> "schedule", overrides |-> EmptyConfig]}
                  \cup {[api |-> "task", overrides |-> c] : c \in AllConfigs}

InitConfig ==
    /\ addTasksCalled = TRUE
    /\ globalConfig \in AllConfigs
    /\ tg = "not_entered"
    /\ reqs = [r \in Requests |-> NoScheduler]
    /\ tasks = <<>>
    /\ ready = <<>>
    /\ launchOrder = <<>>
    /\ startOrder = <<>>
    /\ cancelledBy = "none"
    /\ cfgA = EmptyConfig /\ cfgB = EmptyConfig
    /\ heap = <<EmptyConfig, EmptyConfig>>
    /\ mergedRef = 0
    /\ cfgC = EmptyConfig /\ chain = <<>>

NextConfig ==
    \/ LifespanEnter
    \/ \E r \in Requests : RequestStart(r)
    \/ \E r \in Requests, caller \in Threads, d \in AllDefinitions :
           Len(tasks) < MaxConfigTasks /\ ScheduleImmediate(r, caller, d.api, d.overrides)
    \/ \E r \in Requests : LoopRunSync(r)
    \/ \E r \in Requests : WorkerResume(r)
    \/ \E r \in Requests, via \in {"after_route", "after_response"}, d \in AllDefinitions :
           Len(tasks) < MaxConfigTasks /\ ScheduleBatch(r, via, d.api, d.overrides)

SpecConfig == InitConfig /\ [][NextConfig]_vars

\* the batches driven freely: tasks added before and after a release, and
\* releases called again
InitBatch ==
    /\ addTasksCalled = TRUE
    /\ globalConfig \in GlobalConfigs
    /\ tg = "not_entered"
    /\ reqs = [r \in Requests |-> NoScheduler]
    /\ tasks = <<>>
    /\ ready = <<>>
    /\ launchOrder = <<>>
    /\ startOrder = <<>>
    /\ cancelledBy = "none"
    /\ cfgA = EmptyConfig /\ cfgB = EmptyConfig
    /\ heap = <<EmptyConfig, EmptyConfig>>
    /\ mergedRef = 0
    /\ cfgC = EmptyConfig /\ chain = <<>>

NextBatch ==
    \/ LifespanEnter
    \/ LifespanCancel
    \/ LifespanExit
    \/ \E r \in Requests : RequestStart(r)
    \/ \E r \in Requests, via \in {"after_route", "after_response"}, d \in Definitions :
           Len(tasks) < MaxBatchTasks /\ ScheduleBatch(r, via, d.api, d.overrides)
    \/ \E r \in Requests, via \in {"after_route", "after_response"}, d \in Definitions :
           LateScheduleBatch(r, via, d.api, d.overrides)
    \/ \E r \in Requests : RouteReturn(r)
    \/ \E r \in Requests : ReleaseAfterRoute(r)
    \/ \E r \in Requests : ResponseSent(r)
    \/ \E r \in Requests : ReleaseAfterResponse(r)
    \/ \E r \in Requests, name \in {"after_route", "after_response"} : ReleaseAgain(r, name)
    \/ TaskBegin
    \/ \E t \in TaskIds : BodyResume(t)
    \/ \E t \in TaskIds : ThreadDone(t)
    \/ \E t \in TaskIds : HandlerResume(t)
    \/ \E t \in TaskIds : TaskCancelled(t)

SpecBatch == InitBatch /\ [][NextBatch]_vars

\* the whole program under the scheduling the event loop gives: a spawned
\* task is begun, a sleep and a worker thread come to their end, a pending
\* cancellation is delivered, and the task group's block is left once every
\* child is over
NextShutdown ==
    \/ LifespanEnter
    \/ LifespanCancel
    \/ LifespanExit
    \/ \E r \in Requests : RequestStart(r)
    \/ \E r \in Requests, caller \in Threads, d \in Definitions :
           Len(tasks) < MaxShutdownTasks /\ ScheduleImmediate(r, caller, d.api, d.overrides)
    \/ \E r \in Requests : LoopRunSync(r)
    \/ \E r \in Requests : WorkerResume(r)
    \/ \E r \in Requests, via \in {"after_route", "after_response"}, d \in Definitions :
           Len(tasks) < MaxShutdownTasks /\ ScheduleBatch(r, via, d.api, d.overrides)
    \/ \E r \in Requests : RouteReturn(r)
    \/ \E r \in Requests : RouteRaise(r)
    \/ \E r \in Requests : ReleaseAfterRoute(r)
    \/ \E r \in Requests : ResponseSent(r)
    \/ \E r \in Requests : ReleaseAfterResponse(r)
    \/ TaskBegin
    \/ \E t \in TaskIds : BodyResume(t)
    \/ \E t \in TaskIds : ThreadDone(t)
    \/ \E t \in TaskIds : HandlerResume(t)
    \/ \E t \in TaskIds : TaskCancelled(t)

LoopFairness ==
    /\ WF_vars(TaskBegin)
    /\ WF_vars(LifespanExit)
    /\ \A t \in 1..MaxShutdownTasks :
        /\ WF_vars(t \in TaskIds /\ BodyResume(t))
        /\ WF_vars(t \in TaskIds /\ ThreadDone(t))
        /\ WF_vars(t \in TaskIds /\ HandlerResume(t))
        /\ WF_vars(t \in TaskIds /\ TaskCancelled(t))

SpecShutdown == Init /\ [][NextShutdown]_vars /\ LoopFairness

\* several requests in flight together, sharing the lifespan's task group
InitIsolation ==
    /\ addTasksCalled = TRUE
    /\ globalConfig \in GlobalConfigs
    /\ tg = "not_entered"
    /\ reqs = [r \in IsoRequests |-> NoScheduler]
    /\ tasks = <<>>
    /\ ready = <<>>
    /\ launchOrder = <<>>
    /\ startOrder = <<>>
    /\ cancelledBy = "none"
    /\ cfgA = EmptyConfig /\ cfgB = EmptyConfig
    /\ heap = <<EmptyConfig, EmptyConfig>>
    /\ mergedRef = 0
    /\ cfgC = EmptyConfig /\ chain = <<>>

NextIsolation ==
    \/ LifespanEnter
    \/ LifespanCancel
    \/ LifespanExit
    \/ \E r \in IsoRequests : RequestStart(r)
    \/ \E r \in IsoRequests, caller \in Threads, d \in Definitions :
           Len(tasks) < MaxIsoTasks /\ ScheduleImmediate(r, caller, d.api, d.overrides)
    \/ \E r \in IsoRequests : LoopRunSync(r)
    \/ \E r \in IsoRequests : WorkerResume(r)
    \/ \E r \in IsoRequests, via \in {"after_route", "after_response"}, d \in Definitions :
           Len(tasks) < MaxIsoTasks /\ ScheduleBatch(r, via, d.api, d.overrides)
    \/ \E r \in IsoRequests : RouteReturn(r)
    \/ \E r \in IsoRequests : RouteRaise(r)
    \/ \E r \in IsoRequests : ReleaseAfterRoute(r)
    \/ \E r \in IsoRequests : ResponseSent(r)
    \/ \E r \in IsoRequests : ReleaseAfterResponse(r)
    \/ TaskBegin
    \/ \E t \in TaskIds : BodyResume(t)
    \/ \E t \in TaskIds : ThreadDone(t)
    \/ \E t \in TaskIds : HandlerResume(t)
    \/ \E t \in TaskIds : TaskCancelled(t)

SpecIsolation == InitIsolation /\ [][NextIsolation]_vars

\* ================================================================ claims
Pos(seq, x) == CHOOSE i \in 1..Len(seq) : seq[i] = x
Queue(rq, name) == IF name = "after_route" THEN rq.after_route.scheduled
                   ELSE rq.after_response.scheduled

\* C1: a task added to a batch is not started while that batch's release has
\* not been called: as long as the owning request has not released the batch,
\* the task's `started` event is unset and the task has not been handed to the
\* task group, whatever else has happened meanwhile.
C1_NotStartedBeforeRelease ==
    \A t \in TaskIds :
        (tasks[t].via \in Batches /\ ~Released(reqs[tasks[t].req], tasks[t].via))
            => (~tasks[t].started /\ tasks[t].st = "created")

\* C1 witness: an after_response task still waits, unstarted, although the
\* after_route batch was released and another task has already started.
C1_Witness ==
    \E t, u \in TaskIds :
        /\ tasks[t].via = "after_response"
        /\ ~Released(reqs[tasks[t].req], "after_response")
        /\ Released(reqs[tasks[t].req], "after_route")
        /\ ~tasks[t].started
        /\ tasks[u].started

Rank(via) == CASE via = "scheduler" -> 1
               [] via = "after_route" -> 2
               [] via = "after_response" -> 3

ExpectedLaunchPoint(via) == CASE via = "scheduler" -> "route"
                              [] via = "after_route" -> "route_returned"
                              [] via = "after_response" -> "response_sent"

ReturnedPcs == {"route_returned", "route_released", "response_sent", "done",
                "release_failed"}

\* C2: the launches of one request follow its checkpoints.  An immediate task
\* is launched while the route handler runs, and is launched by the time the
\* handler has returned; the after_route batch is released only once the
\* handler has returned; the after_response batch is released only once the
\* response was sent, and after the after_route release; and the bodies begin
\* in the order immediate, after_route, after_response.
C2_CheckpointOrder ==
    /\ \A r \in Requests :
        /\ Len(reqs[r].released) <= 2
        /\ \A i \in 1..Len(reqs[r].released) :
               reqs[r].released[i] = <<"after_route", "after_response">>[i]
        /\ Released(reqs[r], "after_route") => reqs[r].pc \in ReturnedPcs
        /\ Released(reqs[r], "after_response") => reqs[r].pc \in {"done", "release_failed"}
    /\ \A t \in TaskIds :
        /\ InGroup(t) => tasks[t].launchedAt = ExpectedLaunchPoint(tasks[t].via)
        /\ (tasks[t].via = "scheduler" /\ reqs[tasks[t].req].pc \in ReturnedPcs)
               => InGroup(t)
    /\ \A i, j \in 1..Len(startOrder) :
        (i < j /\ tasks[startOrder[i]].req = tasks[startOrder[j]].req)
            => Rank(tasks[startOrder[i]].via) <= Rank(tasks[startOrder[j]].via)
    /\ \A t, u \in TaskIds :
        (/\ tasks[t].req = tasks[u].req
         /\ Rank(tasks[t].via) < Rank(tasks[u].via)
         /\ tasks[u].started)
            => tasks[t].started

\* C2 witness: one request has scheduled an immediate, an after_route and an
\* after_response task, and all three have started, in that order.
C2_Witness ==
    /\ Len(startOrder) = 3
    /\ tasks[startOrder[1]].via = "scheduler"
    /\ tasks[startOrder[2]].via = "after_route"
    /\ tasks[startOrder[3]].via = "after_response"
    /\ \A i \in 1..3 : tasks[startOrder[i]].req = tasks[startOrder[1]].req

\* C3: a release launches in insertion order.  For two tasks of one batch,
\* the one added first sits first in the queue, is handed to the task group
\* first, and has its `started` event set first.
C3_FifoWithinBatch ==
    \A r \in Requests, b \in Batches :
        \A i, j \in 1..Len(Queue(reqs[r], b)) :
            i < j =>
                LET t1 == Queue(reqs[r], b)[i]
                    t2 == Queue(reqs[r], b)[j]
                IN  /\ t1 < t2
                    /\ InGroup(t2) =>
                          (InGroup(t1) /\ Pos(launchOrder, t1) < Pos(launchOrder, t2))
                    /\ tasks[t2].started =>
                          (tasks[t1].started /\ Pos(startOrder, t1) < Pos(startOrder, t2))

\* C3 witness: a batch holding two tasks was released and both have started.
C3_Witness ==
    \E r \in Requests, b \in Batches :
        /\ Len(Queue(reqs[r], b)) >= 2
        /\ \A i \in 1..Len(Queue(reqs[r], b)) : tasks[Queue(reqs[r], b)[i]].started

NoHandlerFault == \A t \in TaskIds : tasks[t].fault # "handler"
EveryReleaseLaunchedAll ==
    \A r \in Requests, b \in Batches :
        Released(reqs[r], b) =>
            \A i \in 1..Len(Queue(reqs[r], b)) : InGroup(Queue(reqs[r], b)[i])
NothingAborted ==
    /\ cancelledBy # "fault"
    /\ \A u \in TaskIds : tasks[u].st = "cancelled" => cancelledBy = "lifespan"
    /\ \A u \in TaskIds : tasks[u].via = "scheduler" => tasks[u].st # "created"
    /\ EveryReleaseLaunchedAll

ExpectedHandler(t) ==
    IF tasks[t].overrides.on_error # None THEN tasks[t].overrides.on_error
    ELSE globalConfig.on_error

\* C5: when a task's body has raised and the task has a handler, that handler
\* (the task-level override if given, else the global one) was called exactly
\* once, with the task and its exception, and no other handler was called; a
\* task whose body has not raised, or that has no handler, has no call at all.
C5_OnErrorOnce ==
    \A t \in TaskIds :
        /\ tasks[t].config.on_error = ExpectedHandler(t)
        /\ (tasks[t].body = "raised" /\ ExpectedHandler(t) # None)
               => tasks[t].calls = <<[handler |-> ExpectedHandler(t), task |-> t, exc |-> t]>>
        /\ (tasks[t].body # "raised" \/ ExpectedHandler(t) = None)
               => tasks[t].calls = <<>>
        /\ tasks[t].logged = IF tasks[t].body = "raised" THEN 1 ELSE 0

\* C5 witness: under a global handler, a task with its own handler raised and
\* only the task's handler was called, while a task that returned has no call.
C5_Witness ==
    /\ globalConfig.on_error = "global_handler"
    /\ \E t, u \in TaskIds :
        /\ tasks[t].overrides.on_error = "task_handler"
        /\ tasks[t].body = "raised"
        /\ tasks[t].calls = <<[handler |-> "task_handler", task |-> t, exc |-> t]>>
        /\ tasks[u].body = "returned" /\ tasks[u].calls = <<>>

\* C6: of the tasks that were parked inside their body when the task group
\* was cancelled, one with resolved shield=true is never cancelled there and
\* its body runs to its own end (it is still in its body, or the body has
\* returned or raised), while one without the shield never completes its
\* body: it is still parked, or it was cancelled in the body.
C6_ShieldOnCancel ==
    \A t \in TaskIds :
        tasks[t].inBodyAtCancel =>
            IF tasks[t].config.shield = "True"
            THEN /\ tasks[t].st # "cancelled" \/ tasks[t].body # "cancelled"
                 /\ tasks[t].body \in {"none", "returned", "raised"}
                 /\ tasks[t].body = "none" <=> tasks[t].st = "body_suspended"
            ELSE /\ tasks[t].st \in {"body_suspended", "cancelled"}
                 /\ tasks[t].body \in {"none", "cancelled"}

\* C6 witness: two tasks were parked in their bodies when the task group was
\* cancelled; the shielded one has since completed its body and the
\* unshielded one was cancelled in it.
C6_Witness ==
    /\ tg = "cancelled"
    /\ \E t, u \in TaskIds :
        /\ tasks[t].inBodyAtCancel /\ tasks[u].inBodyAtCancel
        /\ tasks[t].config.shield = "True" /\ tasks[t].body = "returned"
        /\ tasks[t].st = "finished"
        /\ tasks[u].config.shield # "True" /\ tasks[u].st = "cancelled"
        /\ tasks[u].body = "cancelled"

\* C7: without add_tasks, asking for the scheduler fails with the
\* uninitialized-app error: a request that began is in that error state, no
\* scheduler exists, no task was created, queued or launched.
C7_UninitializedFails ==
    ~addTasksCalled =>
        /\ \A r \in Requests :
            /\ reqs[r].pc \in {"idle", "uninitialized"}
            /\ [reqs[r] EXCEPT !.pc = "idle"] = NoScheduler
        /\ tasks = <<>> /\ ready = <<>> /\ launchOrder = <<>>
        /\ tg = "not_entered"

\* C7 witness: a request of an app without add_tasks has failed.
C7_Witness ==
    /\ ~addTasksCalled
    /\ \E r \in Requests : reqs[r].pc = "uninitialized"

TaskGroupFailedRequest(r) == reqs[r].pc \in {"schedule_failed", "release_failed"}

Fields == {"name", "shield", "on_error"}
Field(c, f) == CASE f = "name" -> c.name
                 [] f = "shield" -> c.shield
                 [] f = "on_error" -> c.on_error

\* C9: a.merge(b) leaves a and b as they were and returns another object, and
\* each field of the result is b's field when b's field is set (anything but
\* None, so shield=False counts as set) and a's field otherwise.
C9_MergeFieldwise ==
    mergedRef # 0 =>
        /\ heap[1] = cfgA
        /\ heap[2] = cfgB
        /\ mergedRef \notin {1, 2}
        /\ \A f \in Fields :
               Field(heap[mergedRef], f) =
                   IF Field(cfgB, f) # None THEN Field(cfgB, f) ELSE Field(cfgA, f)

\* C9 witness: a has shield=True and a handler, b sets only shield=False; the
\* merge was called, its result has shield=False and a's handler, a is intact.
C9_Witness ==
    /\ mergedRef # 0
    /\ cfgA.shield = "True" /\ cfgA.on_error = "global_handler"
    /\ cfgB = TaskConfig(None, "False", None)
    /\ heap[mergedRef].shield = "False"
    /\ heap[mergedRef].on_error = "global_handler"
    /\ heap[1].shield = "True"

\* C10: every task carries the config resolved when it was created: the
\* scheduler and both batches hold the global default, a task made by a plain
\* schedule(...) carries exactly the global default, and a task made through
\* task(overrides).schedule(...) carries, field by field, the override when
\* one was given and the global default otherwise.
C10_ConfigResolved ==
    /\ \A r \in Requests :
           reqs[r].pc \notin {"idle", "uninitialized"} =>
               /\ reqs[r].config = globalConfig
               /\ reqs[r].after_route.config = globalConfig
               /\ reqs[r].after_response.config = globalConfig
    /\ \A t \in TaskIds :
           IF tasks[t].api = "schedule"
           THEN tasks[t].config = globalConfig
           ELSE \A f \in Fields :
                    Field(tasks[t].config, f) =
                        IF Field(tasks[t].overrides, f) # None
                        THEN Field(tasks[t].overrides, f)
                        ELSE Field(globalConfig, f)

\* C10 witness: under a global config with a handler and a name, a batch task
\* made with only shield overridden carries the shield and the global handler
\* and name.
C10_Witness ==
    /\ globalConfig = TaskConfig("n1", None, "global_handler")
    /\ \E t \in TaskIds :
        /\ tasks[t].via = "after_route"
        /\ tasks[t].api = "task"
        /\ tasks[t].overrides = TaskConfig(None, "True", None)
        /\ tasks[t].config = TaskConfig("n1", "True", "global_handler")

\* C11: a task is handed to the task group by the event-loop thread only.
\* Every task in the group was submitted by the loop thread, also when the
\* schedule call came from a plain function on a worker thread: while such a
\* call is being handed over the task is not in the group and the worker
\* waits, and when the worker is about to resume the loop has submitted it.
C11_SubmittedOnLoop ==
    /\ \A t \in TaskIds :
        /\ InGroup(t) => tasks[t].launchedBy = "loop"
        /\ tasks[t].st = "handoff" =>
               /\ tasks[t].via = "scheduler"
               /\ tasks[t].launchedBy = "none"
               /\ reqs[tasks[t].req].pc = "route_blocked"
    /\ \A r \in Requests :
        /\ reqs[r].pc = "route_blocked" =>
               \E t \in TaskIds : tasks[t].req = r /\ tasks[t].st = "handoff"
        /\ reqs[r].pc = "route_resuming" =>
               \E t \in TaskIds : /\ tasks[t].req = r /\ tasks[t].via = "scheduler"
                                   /\ InGroup(t) /\ tasks[t].launchedBy = "loop"

\* C11 witness: a worker thread's schedule call is about to return; the only
\* task so far is the one it asked for, submitted by the loop thread, and it
\* has already started.
C11_Witness ==
    \E r \in Requests :
        /\ reqs[r].pc = "route_resuming"
        /\ Len(tasks) = 1
        /\ tasks[1].launchedBy = "loop" /\ tasks[1].started

Begun(t) == tasks[t].st \notin {"created", "handoff", "ready"}

\* C12: `started` is unset from a task's creation until its execution begins,
\* is set as soon as the task has taken its first step (so before anything of
\* its body has happened: no body outcome, no log entry, no handler call
\* exists for an unstarted task), and once set it stays set in every later
\* step, whether the body returns, raises or is cancelled.
C12_StartedOnce ==
    /\ [](\A t \in TaskIds :
              /\ tasks[t].started <=> Begun(t)
              /\ tasks[t].started <=> (\E i \in 1..Len(startOrder) : startOrder[i] = t)
              /\ ~tasks[t].started =>
                     /\ tasks[t].body = "none"
                     /\ tasks[t].logged = 0
                     /\ tasks[t].calls = <<>>)
    /\ [][\A t \in TaskIds : tasks[t].started => tasks'[t].started]_vars

\* C12 witness: one task raised in its body, one was cancelled in its body,
\* and both still have `started` set, while a third, launched, has not begun
\* and has it unset.
C12_Witness ==
    \E t, u, w \in TaskIds :
        /\ tasks[t].body = "raised" /\ tasks[t].started
        /\ tasks[u].st = "cancelled" /\ tasks[u].body = "cancelled" /\ tasks[u].started
        /\ tasks[w].st = "ready" /\ ~tasks[w].started

\* C13: a second release launches nothing anew: no task is handed to the task
\* group twice, and so none begins twice.
C13_Original ==
    /\ \A i, j \in 1..Len(launchOrder) : i # j => launchOrder[i] # launchOrder[j]
    /\ \A i, j \in 1..Len(startOrder) : i # j => startOrder[i] # startOrder[j]

ReleaseCount(rq, name) == Cardinality({i \in 1..Len(rq.released) : rq.released[i] = name})

\* C14: a batch is a single-use queue.  A task added to a batch whose release
\* had already been called is never launched as long as that batch is
\* released only that once: it stays created, its `started` stays unset and
\* it is never handed to the task group.
C14_LateNeverLaunched ==
    \A t \in TaskIds :
        (tasks[t].late /\ ReleaseCount(reqs[tasks[t].req], tasks[t].via) = 1)
            => /\ tasks[t].st = "created"
               /\ ~tasks[t].started
               /\ tasks[t].launchedBy = "none"
               /\ \A i \in 1..Len(launchOrder) : launchOrder[i] # t

\* C14 witness: the request is done and the lifespan has shut down; the task
\* that was in the batch at its release has run, and the task added to the
\* same batch after the release is still unstarted.
C14_Witness ==
    /\ tg = "exited"
    /\ \E t, u \in TaskIds :
        /\ tasks[t].via = tasks[u].via /\ tasks[t].req = tasks[u].req
        /\ reqs[tasks[t].req].pc = "done"
        /\ ReleaseCount(reqs[tasks[t].req], tasks[t].via) = 1
        /\ ~tasks[t].late /\ tasks[t].st = "finished"
        /\ tasks[u].late /\ ~tasks[u].started

\* C15: an exception raised by an on_error handler is not caught by the task.
\* A task whose handler raised has crashed with that exception, after its body
\* raised and the handler was called, and the fault has reached the task
\* group, whose scope is cancelled from then on; whereas a task whose body
\* raised and whose handler did not raise carries no fault, and no task ever
\* crashes with its body's exception.
C15_HandlerFaultPropagates ==
    \A t \in TaskIds :
        /\ tasks[t].handler = "raised" =>
               /\ tasks[t].st = "crashed" /\ tasks[t].fault = "handler"
               /\ tasks[t].body = "raised" /\ tasks[t].calls # <<>>
               /\ tg \in {"cancelled", "exited"}
               /\ cancelledBy \in {"fault", "lifespan"}
        /\ (tasks[t].body = "raised" /\ tasks[t].handler # "raised") =>
               (tasks[t].fault = "none" /\ tasks[t].st # "crashed")
        /\ tasks[t].fault # "body"

\* C15 witness: the handler of one task raised while the group was active;
\* the group was cancelled by that fault and an unshielded sibling parked in
\* its body was cancelled, while another task whose body raised and whose
\* handler returned has finished.
C15_Witness ==
    /\ cancelledBy = "fault"
    /\ \E t, u, w \in TaskIds :
        /\ tasks[t].handler = "raised" /\ tasks[t].st = "crashed"
        /\ tasks[u].inBodyAtCancel /\ tasks[u].st = "cancelled"
        /\ tasks[w].body = "raised" /\ tasks[w].handler = "returned"
        /\ tasks[w].st = "finished"

InFlight(t) == tasks[t].st \in {"body_suspended", "in_thread", "handler_suspended"}

\* C16 as first stated, its part on the unshielded tasks: once shutdown has
\* cancelled the task group, an unshielded in-flight task comes to its end
\* only by being cancelled.
C16_Original ==
    [][\A t \in TaskIds :
          (/\ cancelledBy = "lifespan" /\ tg = "cancelled"
           /\ InFlight(t) /\ ~shielded(tasks[t].config)
           /\ tasks'[t].st \in {"finished", "cancelled", "crashed"})
              => tasks'[t].st = "cancelled"]_vars

\* C16 (amended): the task group's scope is cancelled once and for all, and
\* the lifespan's block is left only when every launched task is over, so
\* never while a shielded task still runs; once cancelled, the group is
\* eventually left; and then every task that was parked inside its body at
\* the cancellation was cancelled there if unshielded and has run its body to
\* its end if shielded.  A body that runs as a plain function on a worker
\* thread is never cut short, shielded or not: the group waits for it.
C16_Shutdown ==
    /\ [](tg = "exited" =>
            \A t \in TaskIds :
                /\ InGroup(t) => TerminalTask(t)
                /\ tasks[t].inBodyAtCancel =>
                       IF shielded(tasks[t].config)
                       THEN tasks[t].body \in {"returned", "raised"}
                       ELSE tasks[t].st = "cancelled" /\ tasks[t].body = "cancelled")
    /\ [][/\ tg \in {"cancelled", "exited"} => tg' \in {"cancelled", "exited"}
          /\ cancelledBy # "none" => cancelledBy' = cancelledBy
          /\ tg = "exited" => tg' = "exited"
          /\ \A t \in TaskIds :
              /\ (tg = "cancelled" /\ tasks[t].st = "body_suspended"
                      /\ ~shielded(tasks[t].config))
                     => tasks'[t].st \in {"body_suspended", "cancelled"}
              /\ tasks[t].st = "in_thread"
                     => (tasks'[t].st # "cancelled" /\ tasks'[t].body # "cancelled")]_vars
    /\ (tg = "cancelled" ~> tg = "exited")

\* C16 witness: shutdown is complete; of two tasks parked in their bodies when
\* the lifespan cancelled the group, the shielded one has returned from its
\* body and the unshielded one was cancelled.
C16_Witness ==
    /\ tg = "exited" /\ cancelledBy = "lifespan"
    /\ \E t, u \in TaskIds :
        /\ tasks[t].inBodyAtCancel /\ shielded(tasks[t].config)
        /\ tasks[t].body = "returned" /\ tasks[t].st = "finished"
        /\ tasks[u].inBodyAtCancel /\ ~shielded(tasks[u].config)
        /\ tasks[u].st = "cancelled"

\* C17: schedule(...) is fire-and-forget.  The step in which a coroutine on
\* the event loop schedules an immediate task, the task group being open,
\* leaves the new task spawned but not begun (`started` unset, nothing of its
\* body done), begins or resumes no other task, and leaves the caller in its
\* route code; and a caller never waits for a task: whatever the tasks are
\* doing, route code can return, a handed-over call can be run by the loop
\* and a worker whose call was run can resume.
C17_FireAndForget ==
    /\ [][(/\ Len(tasks') = Len(tasks) + 1
           /\ tasks'[Len(tasks')].via = "scheduler"
           /\ tasks'[Len(tasks')].st # "handoff"
           /\ TgAcceptsTasks)
              => /\ tasks'[Len(tasks')].st = "ready"
                 /\ ~tasks'[Len(tasks')].started
                 /\ tasks'[Len(tasks')].body = "none"
                 /\ ready' = Append(ready, Len(tasks'))
                 /\ startOrder' = startOrder
                 /\ \A u \in TaskIds : tasks'[u] = tasks[u]
                 /\ reqs' = reqs
                 /\ reqs[tasks'[Len(tasks')].req].pc = "route"]_vars
    /\ [](\A r \in Requests :
              /\ reqs[r].pc = "route" => ENABLED RouteReturn(r)
              /\ reqs[r].pc = "route_blocked" => ENABLED LoopRunSync(r)
              /\ reqs[r].pc = "route_resuming" => ENABLED WorkerResume(r))

\* C17 witness: route code on the loop has scheduled two immediate tasks and
\* is still running; the first task is parked in its body, not finished, and
\* the second is spawned with `started` unset.
C17_Witness ==
    \E t, u \in TaskIds :
        /\ t < u
        /\ tasks[t].req = tasks[u].req /\ reqs[tasks[t].req].pc = "route"
        /\ tasks[t].via = "scheduler" /\ tasks[t].st = "body_suspended"
        /\ tasks[u].via = "scheduler" /\ tasks[u].st = "ready"
        /\ ~tasks[u].started

Occurrences(seq, x) == Cardinality({i \in 1..Len(seq) : seq[i] = x})

\* C18: every task created through the scheduler is executed exactly once.
\* No task is handed to the task group twice or begun twice; a task is in the
\* group exactly when it was handed over once, and it has then either begun
\* once or is waiting once in the loop's queue; a batch task sits once in the
\* queue of its batch and each batch is released at most once; and when the
\* request is done (its route returned, both batches released), every task
\* it created, immediate or batched, has been handed to the group.
C18_ExactlyOnce ==
    /\ \A t \in TaskIds :
        /\ Occurrences(launchOrder, t) = IF InGroup(t) THEN 1 ELSE 0
        /\ Occurrences(startOrder, t) = IF tasks[t].started THEN 1 ELSE 0
        /\ InGroup(t) => Occurrences(ready, t) + Occurrences(startOrder, t) = 1
        /\ ~InGroup(t) => Occurrences(ready, t) = 0
        /\ tasks[t].via \in Batches =>
               Occurrences(Queue(reqs[tasks[t].req], tasks[t].via), t) = 1
        /\ reqs[tasks[t].req].pc = "done" => InGroup(t)
    /\ \A r \in Requests, b \in Batches : ReleaseCount(reqs[r], b) <= 1

\* C18 witness: a request is done and the lifespan has shut down; the
\* immediate, the after_route and the after_response task it created have
\* each begun once and returned.
C18_Witness ==
    /\ tg = "exited"
    /\ Len(tasks) = 3 /\ Len(startOrder) = 3 /\ Len(launchOrder) = 3
    /\ {tasks[t].via : t \in TaskIds} = {"scheduler", "after_route", "after_response"}
    /\ \A t \in TaskIds : /\ reqs[tasks[t].req].pc = "done"
                           /\ tasks[t].st = "finished" /\ tasks[t].body = "returned"

\* C19: merge is associative and the empty config is its identity on both
\* sides: a.merge(b).merge(c) equals a.merge(b.merge(c)), a.merge(TaskConfig())
\* and TaskConfig().merge(a) equal a, and the chain default, then batch
\* level, then task level gives per field the most specific value that is
\* set: c's, else b's, else a's.
C19_MergeAlgebra ==
    chain # <<>> =>
        /\ chain.left = chain.right
        /\ chain.rightId = cfgA
        /\ chain.leftId = cfgA
        /\ \A f \in Fields :
               Field(chain.left, f) =
                   IF Field(cfgC, f) # None THEN Field(cfgC, f)
                   ELSE IF Field(cfgB, f) # None THEN Field(cfgB, f)
                   ELSE Field(cfgA, f)

\* C19 witness: a sets name, shield=True and a handler, b sets shield=False
\* only, c sets another name only; the chain gives c's name, b's shield and
\* a's handler, whichever way it is bracketed.
C19_Witness ==
    /\ chain # <<>>
    /\ cfgA = TaskConfig("n1", "True", "global_handler")
    /\ cfgB = TaskConfig(None, "False", None)
    /\ cfgC = TaskConfig("n2", None, None)
    /\ chain.left = TaskConfig("n2", "False", "global_handler")
    /\ chain.right = TaskConfig("n2", "False", "global_handler")

\* C20: batches are released on the success path only.  When the route
\* handler has raised, no release was called for the request, and every task
\* queued in after_route or after_response stays created, unstarted and
\* outside the task group, while every immediate task the handler scheduled
\* before it raised is in the task group as usual.
C20_NoReleaseOnRaise ==
    \A r \in Requests :
        reqs[r].pc = "route_raised" =>
            /\ reqs[r].released = <<>>
            /\ \A t \in TaskIds :
                   tasks[t].req = r =>
                       IF tasks[t].via \in Batches
                       THEN /\ tasks[t].st = "created" /\ ~tasks[t].started
                            /\ Occurrences(launchOrder, t) = 0
                            /\ Occurrences(Queue(reqs[r], tasks[t].via), t) = 1
                       ELSE InGroup(t) /\ Occurrences(launchOrder, t) = 1

\* C20 witness: the route handler raised after queueing a task in each batch
\* and scheduling an immediate task; the lifespan has shut down since, the
\* immediate task has returned and the two queued tasks never started.
C20_Witness ==
    /\ tg = "exited"
    /\ \E r \in Requests :
        /\ reqs[r].pc = "route_raised"
        /\ \E t, u, w \in TaskIds :
            /\ tasks[t].via = "scheduler" /\ tasks[t].body = "returned"
            /\ tasks[u].via = "after_route" /\ ~tasks[u].started
            /\ tasks[w].via = "after_response" /\ ~tasks[w].started

\* C21: cancellation is no task fault.  A task whose body was ended by the
\* cancellation of the task group has ended as cancelled (the cancellation
\* left the task), it is unshielded, the group's scope was cancelled, and
\* nothing was logged for it, no handler was called for it and it carries no
\* fault.
C21_CancelIsNoFault ==
    \A t \in TaskIds :
        tasks[t].body = "cancelled" =>
            /\ tasks[t].st = "cancelled"
            /\ ~shielded(tasks[t].config)
            /\ tg \in {"cancelled", "exited"}
            /\ tasks[t].logged = 0
            /\ tasks[t].calls = <<>>
            /\ tasks[t].handler = "none"
            /\ tasks[t].fault = "none"

\* C21 witness: an unshielded task that has a handler was parked in its body
\* when the lifespan cancelled the group and was cancelled there; its handler
\* was not called, while the handler of a task whose body raised was.
C21_Witness ==
    /\ cancelledBy = "lifespan"
    /\ \E t, u \in TaskIds :
        /\ tasks[t].inBodyAtCancel /\ tasks[t].config.on_error # None
        /\ tasks[t].st = "cancelled" /\ tasks[t].body = "cancelled"
        /\ tasks[t].calls = <<>>
        /\ tasks[u].body = "raised" /\ tasks[u].calls # <<>>

\* C22: the shield covers the body only.  While the task group is cancelled,
\* a shielded task parked in its body cannot be cancelled there, but once its
\* body has raised and its on_error handler is parked at an await, the
\* handler cannot resume: the only step the task can take is to be
\* cancelled, and it takes no other; such a task ends cancelled with its
\* handler called but never completed.
C22_ShieldCoversBodyOnly ==
    /\ [](\A t \in TaskIds :
              (tg = "cancelled" /\ shielded(tasks[t].config)) =>
                  /\ tasks[t].st = "body_suspended" =>
                         (~ENABLED TaskCancelled(t) /\ ENABLED BodyResume(t))
                  /\ tasks[t].st = "handler_suspended" =>
                         (ENABLED TaskCancelled(t) /\ ~ENABLED HandlerResume(t)))
    /\ [][\A t \in TaskIds :
              (/\ tg = "cancelled" /\ shielded(tasks[t].config)
               /\ tasks[t].st = "handler_suspended")
                  => /\ tasks'[t].st \in {"handler_suspended", "cancelled"}
                     /\ tasks'[t].handler = "none"
                     /\ tasks'[t].body = "raised"
                     /\ tasks'[t].calls = tasks[t].calls]_vars

\* C22 witness: a shielded task was parked in its body when the group was
\* cancelled; its body went on and raised, its handler was called and
\* reached an await, and there the task was cancelled.
C22_Witness ==
    \E t \in TaskIds :
        /\ shielded(tasks[t].config) /\ tasks[t].inBodyAtCancel
        /\ tasks[t].body = "raised" /\ tasks[t].calls # <<>>
        /\ tasks[t].handler = "none"
        /\ tasks[t].st = "cancelled"

\* the (request, batch) pairs whose queues exist
QueueOwners == {<<q, b>> : q \in DOMAIN reqs, b \in Batches}

\* the batch a request released in this step, if it released one
JustReleased(q, b) ==
    /\ Len(reqs'[q].released) = Len(reqs[q].released) + 1
    /\ reqs'[q].released[Len(reqs'[q].released)] = b

\* C23: queues are isolated between the batches of a scheduler and between the
\* schedulers of concurrent requests. Every queue holds only tasks that were
\* added to that batch of that request, each of them once, and a batch task
\* is in no other queue; a batch task is in the task group only if its own
\* request released its own batch. A step that changes a queue appends one
\* newly built task of that request and batch to it and leaves every other
\* queue as it was. A step in which a request releases a batch hands exactly
\* that batch's queue to the task group, and a batch task enters the task
\* group only in the step in which its own request releases its own batch.
C23_QueuesIsolated ==
    /\ [](/\ \A o \in QueueOwners : \A i \in 1..Len(Queue(reqs[o[1]], o[2])) :
                LET t == Queue(reqs[o[1]], o[2])[i]
                IN  /\ t \in TaskIds
                    /\ tasks[t].req = o[1]
                    /\ tasks[t].via = o[2]
                    /\ Occurrences(Queue(reqs[o[1]], o[2]), t) = 1
          /\ \A t \in TaskIds : tasks[t].via \in Batches =>
                /\ Occurrences(Queue(reqs[tasks[t].req], tasks[t].via), t) = 1
                /\ InGroup(t) => Released(reqs[tasks[t].req], tasks[t].via))
    /\ [][/\ \A o \in QueueOwners :
                Queue(reqs'[o[1]], o[2]) # Queue(reqs[o[1]], o[2]) =>
                    /\ Len(tasks') = Len(tasks) + 1
                    /\ tasks'[Len(tasks')].req = o[1]
                    /\ tasks'[Len(tasks')].via = o[2]
                    /\ Queue(reqs'[o[1]], o[2])
                           = Append(Queue(reqs[o[1]], o[2]), Len(tasks'))
                    /\ \A p \in QueueOwners \ {o} :
                           Queue(reqs'[p[1]], p[2]) = Queue(reqs[p[1]], p[2])
          /\ \A o \in QueueOwners :
                (JustReleased(o[1], o[2]) /\ reqs'[o[1]].pc # "release_failed") =>
                    /\ launchOrder' = launchOrder \o Queue(reqs[o[1]], o[2])
                    /\ \A t \in TaskIds :
                           tasks'[t] # tasks[t] =>
                               Occurrences(Queue(reqs[o[1]], o[2]), t) = 1
          /\ \A t \in TaskIds :
                (tasks[t].via \in Batches /\ ~InGroup(t) /\ tasks'[t].st # tasks[t].st) =>
                    /\ JustReleased(tasks[t].req, tasks[t].via)
                    /\ \A q \in DOMAIN reqs \ {tasks[t].req} :
                           reqs'[q].released = reqs[q].released]_vars

\* two requests each queued a task; the first released its batch and its task
\* has begun, while the second is still inside its route with its task queued
C23_Witness ==
    \E q1, q2 \in DOMAIN reqs : \E t1, t2 \in TaskIds :
        /\ q1 # q2
        /\ tasks[t1].req = q1 /\ tasks[t2].req = q2
        /\ tasks[t1].via = "after_route" /\ tasks[t2].via = "after_route"
        /\ Queue(reqs[q1], "after_route") = <<t1>>
        /\ Queue(reqs[q2], "after_route") = <<t2>>
        /\ Released(reqs[q1], "after_route") /\ tasks[t1].started
        /\ reqs[q2].pc = "route" /\ tasks[t2].st = "created"

====
